---- MODULE Spec2Model ----
(***************************************************************************)
(* A model of the jsondeepl CLI translation engine (src/src/utils.ts) and  *)
(* of its workflow driver main() (src/unnamed/part_003).                   *)
(*                                                                         *)
(* JSON values are tagged records: a string leaf carries its characters,   *)
(* an object carries a function from keys to values.  Keys and dotted      *)
(* paths are sequences of one-character strings, so that joining keys with *)
(* '.' and splitting a path on '.' are computed as the code computes them. *)
(***************************************************************************)
EXTENDS Integers, Sequences, FiniteSets, TLC

VARIABLES
  fnA,        \* first argument of the function under study
  fnB,        \* second argument of the function under study
  fnPaths,    \* the list of dotted paths given to removeKeysByPath
  fnOut,      \* the value the function returned (or the tree it left behind)
  fnStage,    \* how far the function under study has got
  srcFile,    \* <langDir>/<source>.json
  lockFile,   \* jsondeepl/<source>-lock.json, or NoFile
  targetFile, \* <langDir>/<lang>.json per target language, or NoFile
  histFile,   \* jsondeepl/history/<dateTime>/<lang>.json of the current run
  pc,         \* position of main()
  idx,        \* position of the loop over config.target in the current step
  sourceData, \* main's sourceData
  payloads,   \* main's perLanguagePayloads
  lock0,      \* the lock file as it was when the run started
  target0,    \* the target files as they were when the run started
  user,       \* outcome of the credit check of the current run
  failed,     \* the languages whose translation failed in the current run
  log,        \* provider calls and file writes of the current run, in order
  runs,       \* number of runs started so far
  sent,       \* per language, the json the provider was called with in this run
  answer,     \* per language, what the provider answered in this run
  mergedIn,   \* per language, the newState useMerging merged in this run
  prevRun     \* how things stood when the current run started

fnVars == <<fnA, fnB, fnPaths, fnOut, fnStage>>
ghostVars == <<sent, answer, mergedIn, prevRun>>
runVars == <<srcFile, lockFile, targetFile, histFile, pc, idx, sourceData,
             payloads, lock0, target0, user, failed, log, runs, sent, answer,
             mergedIn, prevRun>>
vars == <<fnA, fnB, fnPaths, fnOut, fnStage, srcFile, lockFile, targetFile,
          histFile, pc, idx, sourceData, payloads, lock0, target0, user,
          failed, log, runs, sent, answer, mergedIn, prevRun>>

(***************************************************************************)
(* JSON values                                                             *)
(***************************************************************************)
Str(s) == [t |-> "str", s |-> s, m |-> <<>>]
Null == [t |-> "null", s |-> <<>>, m |-> <<>>]
Obj(m) == [t |-> "obj", s |-> <<>>, m |-> m]
\* the value of a missing property
Undef == [t |-> "undef", s |-> <<>>, m |-> <<>>]
\* the outcome of a call that raised a TypeError
Throw == [t |-> "throw", s |-> <<>>, m |-> <<>>]
\* a file that does not exist
NoFile == [t |-> "nofile", s |-> <<>>, m |-> <<>>]

EmptyObj == Obj(<<>>)

\* typeof v === 'object'
TypeofObject(v) == v.t \in {"obj", "null"}

\* Object.keys(v) of an object
KeysOf(v) == IF v.t = "obj" THEN DOMAIN v.m ELSE {}

\* v[k], undefined when v has no own property k
Prop(v, k) == IF v.t = "obj" /\ k \in DOMAIN v.m THEN v.m[k] ELSE Undef

\* Object.hasOwn(v, k) for an object v
HasOwn(v, k) == v.t = "obj" /\ k \in DOMAIN v.m

Ka == <<"a">>
Kb == <<"b">>
Kc == <<"c">>
Kdot == <<"a", ".", "b">>
Kempty == <<>>

Digits == <<"0", "1", "2", "3", "4", "5", "6", "7", "8", "9">>
\* the property name of the character at index i of a string
IndexKey(i) == <<Digits[i + 1]>>

\* for..in and Object.keys list integer-like keys first, then the others in
\* insertion order; the model lists the other keys in this fixed order
KeyOrder == <<IndexKey(0), IndexKey(1), IndexKey(2), IndexKey(3), Kempty, Ka, Kb, Kc, Kdot>>

OrderedKeys(v) == SelectSeq(KeyOrder, LAMBDA k : k \in KeysOf(v))

\* all objects with keys among K and values among V
ObjectsOver(K, V) == UNION {{Obj(f) : f \in [D -> V]} : D \in SUBSET K}

(***************************************************************************)
(* extractUniqueKeys, src/src/utils.ts:185-214                             *)
(***************************************************************************)
RECURSIVE extractUniqueKeys(_, _)
extractUniqueKeysKeepsEmpty(newJson, oldJson) ==
  LET keys == KeysOf(newJson)
      both(k) == HasOwn(oldJson, k)
      recurse(k) == both(k) /\ TypeofObject(newJson.m[k]) /\ TypeofObject(oldJson.m[k])
      result(k) == extractUniqueKeys(newJson.m[k], oldJson.m[k])
      emitted(k) == IF ~both(k) THEN TRUE
                    ELSE IF recurse(k) THEN TRUE
                    ELSE newJson.m[k] # oldJson.m[k]
  IN  IF keys # {} /\ oldJson.t # "obj"
        THEN Throw
      ELSE IF \E k \in keys : recurse(k) /\ result(k) = Throw
        THEN Throw
      ELSE Obj([k \in {j \in keys : emitted(j)} |->
                  IF recurse(k) THEN result(k) ELSE newJson.m[k]])

extractUniqueKeys(newJson, oldJson) ==
  LET keys == KeysOf(newJson)
      both(k) == HasOwn(oldJson, k)
      recurse(k) == both(k) /\ TypeofObject(newJson.m[k]) /\ TypeofObject(oldJson.m[k])
      result(k) == extractUniqueKeys(newJson.m[k], oldJson.m[k])
      emitted(k) == IF ~both(k) THEN TRUE
                    ELSE IF recurse(k) THEN KeysOf(result(k)) # {}
                    ELSE newJson.m[k] # oldJson.m[k]
  IN  IF keys # {} /\ oldJson.t # "obj"
        THEN Throw   \* Object.hasOwn(null, key) raises a TypeError
      ELSE IF \E k \in keys : recurse(k) /\ result(k) = Throw
        THEN Throw
      ELSE Obj([k \in {j \in keys : emitted(j)} |->
                  IF recurse(k) THEN result(k) ELSE newJson.m[k]])

(***************************************************************************)
(* mergeFiles, src/src/utils.ts:344-365                                    *)
(***************************************************************************)
\* { ...v }: the own enumerable properties of v; a string spreads into its
\* characters, undefined and null into nothing
Spread(v) ==
  IF v.t = "obj" THEN v.m
  ELSE IF v.t = "str"
    THEN [k \in {IndexKey(i) : i \in 0..(Len(v.s) - 1)} |->
            Str(<<v.s[(CHOOSE i \in 0..(Len(v.s) - 1) : IndexKey(i) = k) + 1]>>)]
  ELSE <<>>

RECURSIVE mergeFiles(_, _)
mergeFilesShallow(target, source) ==
  LET merged == Spread(target)
  IN  Obj([k \in DOMAIN merged \cup KeysOf(source) |->
             IF k \in KeysOf(source) THEN source.m[k] ELSE merged[k]])

\* a result that starts empty instead of as a copy of target
mergeFilesFromEmpty(target, source) ==
  LET merged == <<>>
      targetVal(k) == Prop(target, k)
  IN  Obj([k \in KeysOf(source) |->
             IF source.m[k].t = "obj"
               THEN mergeFiles(targetVal(k), source.m[k])
               ELSE source.m[k]])

\* a recursive call given target instead of targetVal
mergeFilesWholeTarget(target, source) ==
  LET merged == Spread(target)
  IN  Obj([k \in DOMAIN merged \cup KeysOf(source) |->
             IF k \in KeysOf(source)
               THEN IF source.m[k].t = "obj"
                      THEN mergeFiles(target, source.m[k])
                      ELSE source.m[k]
               ELSE merged[k]])

mergeFiles(target, source) ==
  LET merged == Spread(target)
      targetVal(k) == IF k \in DOMAIN merged THEN merged[k] ELSE Undef
  IN  Obj([k \in DOMAIN merged \cup KeysOf(source) |->
             IF k \in KeysOf(source)
               THEN IF source.m[k].t = "obj"
                      THEN mergeFiles(targetVal(k), source.m[k])
                      ELSE source.m[k]
               ELSE merged[k]])

(***************************************************************************)
(* removeKeysByPath, src/src/utils.ts:406-425                              *)
(***************************************************************************)
\* path.split('.')
RECURSIVE Split(_)
Split(path) ==
  IF \A i \in 1..Len(path) : path[i] # "."
    THEN <<path>>
    ELSE LET i == CHOOSE j \in 1..Len(path) :
                    path[j] = "." /\ \A h \in 1..(j - 1) : path[h] # "."
         IN  <<SubSeq(path, 1, i - 1)>> \o Split(SubSeq(path, i + 1, Len(path)))

\* delete current[lastPart]
DeleteKey(current, lastPart) ==
  Obj([k \in KeysOf(current) \ {lastPart} |-> current.m[k]])

\* One path of removeKeysByPath: the walk over parts from current, then the
\* delete.  The walk stops (break) at the first part whose value is falsy or
\* is not an object, and the delete acts on the object the walk stopped at.
RECURSIVE RemovePath(_, _, _)
RemovePath(current, parts, lastPart) ==
  IF parts # <<>> /\ Prop(current, Head(parts)).t = "obj"
    THEN Obj([current.m EXCEPT
                ![Head(parts)] = RemovePath(@, Tail(parts), lastPart)])
    ELSE IF lastPart # <<>> THEN DeleteKey(current, lastPart) ELSE current

RECURSIVE removeKeysByPath(_, _)
removeKeysByPath(obj, paths) ==
  IF paths = <<>>
    THEN obj
    ELSE LET parts == Split(Head(paths))
             lastPart == parts[Len(parts)]
         IN  removeKeysByPath(
               RemovePath(obj, SubSeq(parts, 1, Len(parts) - 1), lastPart),
               Tail(paths))

(***************************************************************************)
(* findKeysToRemove, src/src/utils.ts:427-451                              *)
(***************************************************************************)
\* parentKey ? `${parentKey}.${key}` : key
FullKey(parentKey, key) ==
  IF parentKey # <<>> THEN parentKey \o <<".">> \o key ELSE key

RECURSIVE findKeysToRemove(_, _, _)
findKeysToRemove(targetJson, sourceJson, parentKey) ==
  LET keys == OrderedKeys(targetJson)
      found(key) ==
        IF ~HasOwn(sourceJson, key)
          THEN <<FullKey(parentKey, key)>>
        ELSE IF targetJson.m[key].t = "obj" /\ sourceJson.m[key].t = "obj"
          THEN findKeysToRemove(targetJson.m[key], sourceJson.m[key],
                                FullKey(parentKey, key))
        ELSE <<>>
      RECURSIVE from(_)
      from(i) == IF i > Len(keys) THEN <<>> ELSE found(keys[i]) \o from(i + 1)
  IN  from(1)

(***************************************************************************)
(* The pure functions, applied to every input of a bounded universe        *)
(***************************************************************************)
Langs == {"fr", "de"}

\* the workflow's variables, at rest while a single function is studied
RunAtRest ==
  /\ srcFile = EmptyObj
  /\ lockFile = NoFile
  /\ targetFile = [l \in Langs |-> NoFile]
  /\ histFile = [l \in Langs |-> NoFile]
  /\ pc = "idle"
  /\ idx = 0
  /\ sourceData = EmptyObj
  /\ payloads = [l \in Langs |-> EmptyObj]
  /\ lock0 = NoFile
  /\ target0 = [l \in Langs |-> NoFile]
  /\ user = "none"
  /\ failed = {}
  /\ log = <<>>
  /\ runs = 0
  /\ sent = [l \in Langs |-> NoFile]
  /\ answer = [l \in Langs |-> NoFile]
  /\ mergedIn = [l \in Langs |-> NoFile]
  /\ prevRun = "none"

\* leaves and trees given to the differ
DiffLeaves == {Null, Str(<<"x">>), Str(<<"y">>)}
DiffTrees ==
  ObjectsOver({Ka, Kb}, DiffLeaves \cup ObjectsOver({Ka, Kb}, DiffLeaves))

InitDiff ==
  /\ fnA \in DiffTrees
  /\ fnB \in DiffTrees
  /\ fnPaths = <<>>
  /\ fnOut = Undef
  /\ fnStage = "input"
  /\ RunAtRest

\* uniqueKeys = await extractUniqueKeys(fnA, fnB)
DiffStep ==
  /\ fnStage = "input"
  /\ fnOut' = extractUniqueKeys(fnA, fnB)
  /\ fnStage' = "done"
  /\ UNCHANGED <<fnA, fnB, fnPaths>>
  /\ UNCHANGED runVars

NextDiff == DiffStep

SpecDiff == InitDiff /\ [][NextDiff]_vars

\* a subtree is an object; strings and null are leaves
IsSubtree(v) == v.t = "obj"

\* The reference differ: a key of current absent from previous is copied
\* whole; a key that is a subtree on both sides appears iff its recursive diff
\* is non-empty, holding that diff; a key that is a leaf on both sides appears
\* with the new value iff the values differ; a key that is a leaf on one side
\* and a subtree on the other is emitted whole; keys only in previous never
\* appear.

RECURSIVE ReferenceDiff(_, _)
ReferenceDiff(current, previous) ==
  LET sub(k) == ReferenceDiff(current.m[k], previous.m[k])
      bothSubtrees(k) == IsSubtree(current.m[k]) /\ IsSubtree(previous.m[k])
      appears(k) ==
        IF k \notin KeysOf(previous) THEN TRUE
        ELSE IF bothSubtrees(k) THEN KeysOf(sub(k)) # {}
        ELSE IF ~IsSubtree(current.m[k]) /\ ~IsSubtree(previous.m[k])
          THEN current.m[k] # previous.m[k]
        ELSE TRUE
  IN  Obj([k \in {j \in KeysOf(current) : appears(j)} |->
             IF k \in KeysOf(previous) /\ bothSubtrees(k)
               THEN sub(k) ELSE current.m[k]])

\* C1: extractUniqueKeys(current, previous) equals the reference differ for
\* all trees.
C1_DiffIsReference ==
  fnStage = "done" => fnOut = ReferenceDiff(fnA, fnB)

(***************************************************************************)
(* mergeFiles on every pair of a bounded universe                          *)
(***************************************************************************)
MaxStrLen == 2

\* the strings "", "x", "xx", ... of at most MaxStrLen characters
TargetStrings == {[i \in 1..n |-> "x"] : n \in 0..MaxStrLen}
TargetLeaves == {Null} \cup {Str(s) : s \in TargetStrings}
MergeTargets ==
  ObjectsOver({Ka, Kb}, TargetLeaves \cup ObjectsOver({Ka, Kb}, TargetLeaves))

TranslatedLeaves == {Null, Str(<<"y">>)}
MergeSources ==
  ObjectsOver({Ka, Kb},
              TranslatedLeaves \cup ObjectsOver({Ka, Kb}, TranslatedLeaves))

InitMerge ==
  /\ fnA \in MergeTargets
  /\ fnB \in MergeSources
  /\ fnPaths = <<>>
  /\ fnOut = Undef
  /\ fnStage = "input"
  /\ RunAtRest

\* mergedJson = await mergeFiles(fnA, fnB)
MergeStep ==
  /\ fnStage = "input"
  /\ fnOut' = mergeFiles(fnA, fnB)
  /\ fnStage' = "done"
  /\ UNCHANGED <<fnA, fnB, fnPaths>>
  /\ UNCHANGED runVars

\* the same translations merged a second time into the merged tree
MergeAgainStep ==
  /\ fnStage = "done"
  /\ fnOut' = [first |-> fnOut, second |-> mergeFiles(fnOut, fnB)]
  /\ fnStage' = "again"
  /\ UNCHANGED <<fnA, fnB, fnPaths>>
  /\ UNCHANGED runVars

NextMerge == MergeStep \/ MergeAgainStep

SpecMerge == InitMerge /\ [][NextMerge]_vars

\* the value at a sequence of keys, undefined when the walk leaves the tree
RECURSIVE At(_, _)
At(v, keyPath) ==
  IF keyPath = <<>> THEN v ELSE At(Prop(v, Head(keyPath)), Tail(keyPath))

\* the positions (sequences of keys) reached from the roots of T and S by
\* descending only through keys that are subtrees on both sides
RECURSIVE BothPositions(_, _)
BothPositions(T, S) ==
  {<<>>} \cup
  UNION {{<<k>> \o p : p \in BothPositions(T.m[k], S.m[k])} :
           k \in {j \in KeysOf(T) \cap KeysOf(S) :
                    IsSubtree(T.m[j]) /\ IsSubtree(S.m[j])}}

\* C2: after mergeFiles(existingTarget, newlyTranslated), at every position
\* where both trees have subtrees, each key of the existing tree that the new
\* tree lacks keeps its existing value, and each key present in both whose
\* new value is a leaf holds the new value.
C2_MergePreservesAndOverrides ==
  fnStage = "done" =>
    \A p \in BothPositions(fnA, fnB) :
      LET existing == At(fnA, p)
          new == At(fnB, p)
          merged == At(fnOut, p)
      IN  /\ \A k \in KeysOf(existing) \ KeysOf(new) :
               Prop(merged, k) = existing.m[k]
          /\ \A k \in KeysOf(existing) \cap KeysOf(new) :
               ~IsSubtree(new.m[k]) => Prop(merged, k) = new.m[k]

\* a merge in which a nested subtree keeps one key and overrides another
C2_Witness ==
  /\ fnStage = "done"
  /\ \E p \in BothPositions(fnA, fnB) :
       /\ p # <<>>
       /\ KeysOf(At(fnA, p)) \ KeysOf(At(fnB, p)) # {}
       /\ \E k \in KeysOf(At(fnA, p)) \cap KeysOf(At(fnB, p)) :
            /\ At(fnB, p).m[k].t = "str"
            /\ At(fnA, p).m[k] # At(fnB, p).m[k]
            /\ At(fnOut, p).m[k] = At(fnB, p).m[k]

\* C3: when the new value at a key is a non-null subtree and the existing
\* value at that key is missing, null or a string leaf, the merged value at
\* that key equals the new subtree exactly.
C3_NonObjectExistingIsEmpty ==
  fnStage = "done" =>
    \A k \in KeysOf(fnB) :
      (IsSubtree(fnB.m[k]) /\ Prop(fnA, k).t \in {"undef", "null", "str"})
        => Prop(fnOut, k) = fnB.m[k]

(***************************************************************************)
(* removeKeysByPath on every tree and list of paths of a bounded universe  *)
(***************************************************************************)
\* the keys of a sequence of keys joined with '.'
RECURSIVE DottedPath(_)
DottedPath(keyPath) ==
  IF Len(keyPath) = 1
    THEN keyPath[1]
    ELSE keyPath[1] \o <<".">> \o DottedPath(Tail(keyPath))

RemoveLeaves == {Null, Str(<<"x">>)}
RemoveTrees ==
  ObjectsOver({Ka, Kb}, RemoveLeaves \cup ObjectsOver({Ka, Kb}, RemoveLeaves))

RemoveKeyPaths ==
  {<<k>> : k \in {Ka, Kb}} \cup
  {<<k, j>> : k \in {Ka, Kb}, j \in {Ka, Kb}} \cup
  {<<k, j, h>> : k \in {Ka, Kb}, j \in {Ka, Kb}, h \in {Ka, Kb}}
RemovePaths == {DottedPath(p) : p \in RemoveKeyPaths}

InitRemove ==
  /\ fnA \in RemoveTrees
  /\ fnB = EmptyObj
  /\ fnPaths \in {<<p>> : p \in RemovePaths}
                   \cup {<<p, q>> : p \in RemovePaths, q \in RemovePaths}
  /\ fnOut = Undef
  /\ fnStage = "found"
  /\ RunAtRest

\* removeKeysByPath(jsonData, keysToRemove); fnOut is jsonData afterwards
RemoveStep ==
  /\ fnStage = "found"
  /\ fnOut' = removeKeysByPath(fnA, fnPaths)
  /\ fnStage' = "pruned"
  /\ UNCHANGED <<fnA, fnB, fnPaths>>
  /\ UNCHANGED runVars

NextRemove == RemoveStep

SpecRemove == InitRemove /\ [][NextRemove]_vars

\* some intermediate segment of the path is missing in T or is not an object
BrokenPath(T, path) ==
  LET parts == Split(path)
      parents == SubSeq(parts, 1, Len(parts) - 1)
  IN  \E j \in 1..Len(parents) : ~IsSubtree(At(T, SubSeq(parents, 1, j)))

\* C4: a path one of whose intermediate segments is missing or is not an
\* object is a no-op: a call whose paths are all of that kind leaves the tree
\* as it was.
C4_BrokenPathIsNoOp ==
  (fnStage = "pruned" /\ \A i \in 1..Len(fnPaths) : BrokenPath(fnA, fnPaths[i]))
    => fnOut = fnA

(***************************************************************************)
(* The pruner of useCleanup on every pair of a bounded universe:           *)
(* findKeysToRemove, removeKeysByPath, and findKeysToRemove once more      *)
(***************************************************************************)
PruneTargets ==
  ObjectsOver({Kempty, Ka, Kdot},
              {Str(<<"x">>)} \cup ObjectsOver({Ka, Kb}, {Str(<<"x">>)}))
PruneSources ==
  ObjectsOver({Kempty, Ka, Kdot},
              {Str(<<"y">>)} \cup ObjectsOver({Ka, Kb}, {Str(<<"y">>)}))

InitPrune ==
  /\ fnA \in PruneTargets
  /\ fnB \in PruneSources
  /\ fnPaths = <<>>
  /\ fnOut = Undef
  /\ fnStage = "input"
  /\ RunAtRest

\* keysToRemove = findKeysToRemove(jsonData, sourceJsonData)
FindStep ==
  /\ fnStage = "input"
  /\ fnPaths' = findKeysToRemove(fnA, fnB, <<>>)
  /\ fnStage' = "found"
  /\ UNCHANGED <<fnA, fnB, fnOut>>
  /\ UNCHANGED runVars

\* findKeysToRemove on the pruned tree
RefindStep ==
  /\ fnStage = "pruned"
  /\ fnPaths' = findKeysToRemove(fnOut, fnB, <<>>)
  /\ fnStage' = "refound"
  /\ UNCHANGED <<fnA, fnB, fnOut>>
  /\ UNCHANGED runVars

NextPrune == FindStep \/ RemoveStep \/ RefindStep

SpecPrune == InitPrune /\ [][NextPrune]_vars

\* the sequences of keys of T that are absent from S at a position reached by
\* descending through keys that are subtrees on both sides
OrphanKeyPaths(T, S) ==
  UNION {{p \o <<k>> : k \in KeysOf(At(T, p)) \ KeysOf(At(S, p))} :
           p \in BothPositions(T, S)}

Range(seq) == {seq[i] : i \in 1..Len(seq)}

\* C5: findKeysToRemove(target, source) returns exactly the dotted paths of
\* the keys of target absent from source at a position reached through keys
\* that are subtrees on both sides.
C5_FindReturnsOrphanPaths ==
  fnStage = "found" =>
    Range(fnPaths) = {DottedPath(p) : p \in OrphanKeyPaths(fnA, fnB)}

\* neither side changed a key between leaf and subtree
RECURSIVE TypePreserved(_, _)
TypePreserved(T, S) ==
  \A k \in KeysOf(T) \cap KeysOf(S) :
    /\ IsSubtree(T.m[k]) <=> IsSubtree(S.m[k])
    /\ IsSubtree(T.m[k]) => TypePreserved(T.m[k], S.m[k])

\* the keys of T that exist at the matching position in S, with T's values
RECURSIVE KeptKeys(_, _)
KeptKeys(T, S) ==
  Obj([k \in KeysOf(T) \cap KeysOf(S) |->
         IF IsSubtree(T.m[k]) /\ IsSubtree(S.m[k])
           THEN KeptKeys(T.m[k], S.m[k]) ELSE T.m[k]])

\* C6: in the type-preserved case, after removeKeysByPath(T,
\* findKeysToRemove(T, S)) the tree holds exactly those of its original keys
\* that exist at the matching position in S, with their values.
C6_PruneRoundTrip ==
  (fnStage = "pruned" /\ TypePreserved(fnA, fnB)) => fnOut = KeptKeys(fnA, fnB)

\* C7: findKeysToRemove on the pruned tree returns the empty list.
C7_PruneIdempotent ==
  fnStage = "refound" => fnPaths = <<>>

(***************************************************************************)
(* The workflow: main() of src/unnamed/part_003 run again and again over   *)
(* the files of one project, the source file edited between runs           *)
(***************************************************************************)
MaxRuns == 2

\* config.target, in configuration order
TargetOrder == <<"fr", "de">>

\* the source trees the user may write
SourceLeaves == {Str(<<"x">>), Str(<<"y">>)}
SourceSubtrees == ObjectsOver({Kc}, SourceLeaves)
\* key a absent or a leaf, key b absent, a leaf or a subtree
SourceTrees ==
  {Obj(a @@ b) :
     a \in {<<>>} \cup {Ka :> v : v \in SourceLeaves},
     b \in {<<>>} \cup {Kb :> v : v \in SourceLeaves \cup SourceSubtrees}}

\* the provider's answer for a payload: the same shape, every string leaf
\* translated (here: marked with the first letter of the target language)
LangMark(lang) == IF lang = "fr" THEN "f" ELSE "d"

RECURSIVE Translated(_, _)
Translated(lang, json) ==
  IF json.t = "obj"
    THEN Obj([k \in DOMAIN json.m |-> Translated(lang, json.m[k])])
  ELSE IF json.t = "str" THEN Str(<<LangMark(lang)>> \o json.s)
  ELSE json

\* parseJsonFile: {} when the file does not exist
parseJsonFile(file) == IF file = NoFile THEN EmptyObj ELSE file

\* useExtract: the whole source when there is no lock file
useExtractNoLockEmpty(lock, data) ==
  IF lock = NoFile THEN EmptyObj ELSE extractUniqueKeys(data, lock)

useExtract(lock, data) ==
  IF lock = NoFile THEN data ELSE extractUniqueKeys(data, lock)

\* detectMissingTargetLanguages
detectMissingTargetLanguages(files) == {l \in Langs : files[l] = NoFile}

\* createPerLanguagePayloads: the whole source for a language without a target
\* file, the extracted keys for the others
createPerLanguagePayloadsDeltaOnly(files, data, extractedKeys) ==
  [l \in Langs |-> extractedKeys]

createPerLanguagePayloads(files, data, extractedKeys) ==
  [l \in Langs |->
     IF l \in detectMissingTargetLanguages(files) THEN data ELSE extractedKeys]

\* the loop of main that looks for a non-empty payload
hasWorkToDoAlways(perLanguagePayloads) == TRUE

hasWorkToDo(perLanguagePayloads) ==
  \E l \in Langs : KeysOf(perLanguagePayloads[l]) # {}

\* findKeysToRemove and removeKeysByPath of useCleanup on one target file
cleanedUp(jsonData, sourceJsonData) ==
  removeKeysByPath(jsonData, findKeysToRemove(jsonData, sourceJsonData, <<>>))

Init ==
  /\ fnA = EmptyObj
  /\ fnB = EmptyObj
  /\ fnPaths = <<>>
  /\ fnOut = Undef
  /\ fnStage = "unused"
  /\ srcFile \in SourceTrees
  /\ lockFile = NoFile
  /\ targetFile = [l \in Langs |-> NoFile]
  /\ histFile = [l \in Langs |-> NoFile]
  /\ pc = "idle"
  /\ idx = 0
  /\ sourceData = EmptyObj
  /\ payloads = [l \in Langs |-> EmptyObj]
  /\ lock0 = NoFile
  /\ target0 = [l \in Langs |-> NoFile]
  /\ user = "none"
  /\ failed = {}
  /\ log = <<>>
  /\ runs = 0
  /\ sent = [l \in Langs |-> NoFile]
  /\ answer = [l \in Langs |-> NoFile]
  /\ mergedIn = [l \in Langs |-> NoFile]
  /\ prevRun = "none"

Ended == pc \in {"idle", "done", "exited"}

\* the user edits the source file between two runs
EditSource ==
  /\ Ended
  /\ runs < MaxRuns
  /\ \E tree \in SourceTrees \ {srcFile} : srcFile' = tree
  /\ pc' = "idle"
  /\ UNCHANGED <<lockFile, targetFile, histFile, idx, sourceData, payloads,
                 lock0, target0, user, failed, log, runs>>
  /\ UNCHANGED fnVars
  /\ UNCHANGED ghostVars

\* between two runs a target file is missing again: the user deleted it, which
\* is what a language newly added to config.target looks like to the engine
DropTargetFile ==
  /\ Ended
  /\ runs < MaxRuns
  /\ \E l \in Langs :
       /\ targetFile[l] # NoFile
       /\ targetFile' = [targetFile EXCEPT ![l] = NoFile]
  /\ pc' = "idle"
  /\ UNCHANGED <<srcFile, lockFile, histFile, idx, sourceData, payloads,
                 lock0, target0, user, failed, log, runs>>
  /\ UNCHANGED fnVars
  /\ UNCHANGED ghostVars

\* a run starts: useConfigLoader returns the configuration or exits
StartRun ==
  /\ Ended
  /\ runs < MaxRuns
  /\ runs' = runs + 1
  /\ lock0' = lockFile
  /\ target0' = targetFile
  /\ histFile' = [l \in Langs |-> NoFile]
  /\ sourceData' = EmptyObj
  /\ payloads' = [l \in Langs |-> EmptyObj]
  /\ user' = "none"
  /\ failed' = {}
  /\ log' = <<>>
  /\ idx' = 0
  /\ \E loaded \in BOOLEAN : pc' = IF loaded THEN "loaded" ELSE "exited"
  /\ UNCHANGED <<srcFile, lockFile, targetFile>>
  /\ UNCHANGED fnVars
  /\ sent' = [l \in Langs |-> NoFile]
  /\ answer' = [l \in Langs |-> NoFile]
  /\ mergedIn' = [l \in Langs |-> NoFile]
  /\ prevRun' = IF pc = "done" /\ log # <<>> THEN "completed"
                 ELSE IF pc = "done" THEN "skipped"
                 ELSE IF pc = "exited" THEN "exited"
                 ELSE "edited"

\* main, from parseJsonFile to the hasWorkToDo test
Prepare ==
  /\ pc = "loaded"
  /\ LET data == parseJsonFile(srcFile)
         uniqueKeys == useExtract(lockFile, data)
         perLanguage == createPerLanguagePayloads(targetFile, data, uniqueKeys)
     IN  /\ sourceData' = data
         /\ IF uniqueKeys = Throw
              THEN /\ pc' = "exited"
                   /\ UNCHANGED payloads
              ELSE /\ payloads' = perLanguage
                   /\ pc' = IF hasWorkToDo(perLanguage) THEN "credit" ELSE "done"
  /\ UNCHANGED <<srcFile, lockFile, targetFile, histFile, idx, lock0, target0,
                 user, failed, log, runs>>
  /\ UNCHANGED fnVars
  /\ UNCHANGED ghostVars

\* await useUser(config, totalCharacters): main ignores the returned value
CreditCheck ==
  /\ pc = "credit"
  /\ \E outcome \in {"ok", "null", "inactive", "insufficient", "declined"} :
       /\ user' = outcome
       /\ pc' = IF outcome \in {"ok", "null"} THEN "translate" ELSE "exited"
  /\ idx' = 1
  /\ UNCHANGED <<srcFile, lockFile, targetFile, histFile, sourceData, payloads,
                 lock0, target0, failed, log, runs>>
  /\ UNCHANGED fnVars
  /\ UNCHANGED ghostVars

\* where main goes after language i of the loop of useTranslateJSON: on to the
\* next language, and to createLockFile once the loop is over
AfterTranslationFirstOnly(i) == "lock"

AfterTranslation(i) == IF i = Len(TargetOrder) THEN "lock" ELSE "translate"

\* useTranslateJSON: a language with an empty payload is skipped
TranslateSkipStillCalls ==
  /\ pc = "translate"
  /\ KeysOf(payloads[TargetOrder[idx]]) = {}
  /\ LET lang == TargetOrder[idx]
         jsonToTranslate == payloads[lang]
         translation == Translated(lang, jsonToTranslate)
     IN  /\ sent' = [sent EXCEPT ![lang] = jsonToTranslate]
         /\ answer' = [answer EXCEPT ![lang] = translation]
         /\ histFile' = [histFile EXCEPT ![lang] = translation]
         /\ log' = log \o << <<"call", lang>>, <<"history", lang>> >>
  /\ pc' = AfterTranslation(idx)
  /\ idx' = idx + 1
  /\ UNCHANGED <<srcFile, lockFile, targetFile, sourceData, payloads, lock0,
                 target0, user, failed, runs, mergedIn, prevRun>>
  /\ UNCHANGED fnVars

TranslateSkip ==
  /\ pc = "translate"
  /\ KeysOf(payloads[TargetOrder[idx]]) = {}
  /\ pc' = AfterTranslation(idx)
  /\ idx' = idx + 1
  /\ UNCHANGED <<srcFile, lockFile, targetFile, histFile, sourceData, payloads,
                 lock0, target0, user, failed, log, runs>>
  /\ UNCHANGED fnVars
  /\ UNCHANGED ghostVars

\* useTranslateJSON: the provider answers and the answer is saved to history
TranslateOkSavesPayload ==
  /\ pc = "translate"
  /\ KeysOf(payloads[TargetOrder[idx]]) # {}
  /\ LET lang == TargetOrder[idx]
         jsonToTranslate == payloads[lang]
         translation == Translated(lang, jsonToTranslate)
     IN  /\ sent' = [sent EXCEPT ![lang] = jsonToTranslate]
         /\ answer' = [answer EXCEPT ![lang] = translation]
         /\ histFile' = [histFile EXCEPT ![lang] = jsonToTranslate]
         /\ log' = log \o << <<"call", lang>>, <<"history", lang>> >>
  /\ pc' = AfterTranslation(idx)
  /\ idx' = idx + 1
  /\ UNCHANGED <<srcFile, lockFile, targetFile, sourceData, payloads, lock0,
                 target0, user, failed, runs, mergedIn, prevRun>>
  /\ UNCHANGED fnVars

TranslateOk ==
  /\ pc = "translate"
  /\ KeysOf(payloads[TargetOrder[idx]]) # {}
  /\ LET lang == TargetOrder[idx]
         jsonToTranslate == payloads[lang]
         translation == Translated(lang, jsonToTranslate)
     IN  /\ sent' = [sent EXCEPT ![lang] = jsonToTranslate]
         /\ answer' = [answer EXCEPT ![lang] = translation]
         /\ histFile' = [histFile EXCEPT ![lang] = translation]
         /\ log' = log \o << <<"call", lang>>, <<"history", lang>> >>
  /\ pc' = AfterTranslation(idx)
  /\ idx' = idx + 1
  /\ UNCHANGED <<srcFile, lockFile, targetFile, sourceData, payloads, lock0,
                 target0, user, failed, runs, mergedIn, prevRun>>
  /\ UNCHANGED fnVars

\* useTranslateJSON: the provider fails, the catch block exits with code 1
TranslateFailContinues ==
  /\ pc = "translate"
  /\ KeysOf(payloads[TargetOrder[idx]]) # {}
  /\ failed' = failed \cup {TargetOrder[idx]}
  /\ log' = Append(log, <<"call", TargetOrder[idx]>>)
  /\ pc' = AfterTranslation(idx)
  /\ idx' = idx + 1
  /\ UNCHANGED <<srcFile, lockFile, targetFile, histFile, sourceData,
                 payloads, lock0, target0, user, runs>>
  /\ UNCHANGED fnVars
  /\ sent' = [sent EXCEPT ![TargetOrder[idx]] = payloads[TargetOrder[idx]]]
  /\ UNCHANGED <<answer, mergedIn, prevRun>>

TranslateFail ==
  /\ pc = "translate"
  /\ KeysOf(payloads[TargetOrder[idx]]) # {}
  /\ failed' = failed \cup {TargetOrder[idx]}
  /\ log' = Append(log, <<"call", TargetOrder[idx]>>)
  /\ pc' = "exited"
  /\ UNCHANGED <<srcFile, lockFile, targetFile, histFile, idx, sourceData,
                 payloads, lock0, target0, user, runs>>
  /\ UNCHANGED fnVars
  /\ sent' = [sent EXCEPT ![TargetOrder[idx]] = payloads[TargetOrder[idx]]]
  /\ UNCHANGED <<answer, mergedIn, prevRun>>

\* createLockFile(config.source, sourceData)
CreateLockElsewhere ==
  /\ pc = "lock"
  /\ lockFile' = lockFile
  /\ log' = Append(log, <<"lock", "">>)
  /\ pc' = "merge"
  /\ idx' = 1
  /\ UNCHANGED <<srcFile, targetFile, histFile, sourceData, payloads, lock0,
                 target0, user, failed, runs>>
  /\ UNCHANGED fnVars
  /\ UNCHANGED ghostVars

CreateLockMerged ==
  /\ pc = "lock"
  /\ lockFile' = mergeFiles(parseJsonFile(lockFile), sourceData)
  /\ log' = Append(log, <<"lock", "">>)
  /\ pc' = "merge"
  /\ idx' = 1
  /\ UNCHANGED <<srcFile, targetFile, histFile, sourceData, payloads, lock0,
                 target0, user, failed, runs>>
  /\ UNCHANGED fnVars
  /\ UNCHANGED ghostVars

CreateLock ==
  /\ pc = "lock"
  /\ lockFile' = sourceData
  /\ log' = Append(log, <<"lock", "">>)
  /\ pc' = "merge"
  /\ idx' = 1
  /\ UNCHANGED <<srcFile, targetFile, histFile, sourceData, payloads, lock0,
                 target0, user, failed, runs>>
  /\ UNCHANGED fnVars
  /\ UNCHANGED ghostVars

\* useMerging, one target language
Merge ==
  /\ pc = "merge"
  /\ LET lang == TargetOrder[idx]
         oldState == parseJsonFile(targetFile[lang])
         newState == parseJsonFile(histFile[lang])
     IN  /\ targetFile' = [targetFile EXCEPT ![lang] = mergeFiles(oldState, newState)]
         /\ mergedIn' = [mergedIn EXCEPT ![lang] = newState]
         /\ log' = Append(log, <<"merge", lang>>)
  /\ pc' = IF idx = Len(TargetOrder) THEN "cleanup" ELSE "merge"
  /\ idx' = IF idx = Len(TargetOrder) THEN 1 ELSE idx + 1
  /\ UNCHANGED <<srcFile, lockFile, histFile, sourceData, payloads, lock0,
                 target0, user, failed, runs, sent, answer, prevRun>>
  /\ UNCHANGED fnVars

\* useCleanup, one target language
Cleanup ==
  /\ pc = "cleanup"
  /\ LET lang == TargetOrder[idx]
         sourceJsonData == parseJsonFile(srcFile)
         jsonData == parseJsonFile(targetFile[lang])
     IN  /\ targetFile' = [targetFile EXCEPT
                             ![lang] = cleanedUp(jsonData, sourceJsonData)]
         /\ log' = Append(log, <<"cleanup", lang>>)
  /\ pc' = IF idx = Len(TargetOrder) THEN "done" ELSE "cleanup"
  /\ idx' = idx + 1
  /\ UNCHANGED <<srcFile, lockFile, histFile, sourceData, payloads, lock0,
                 target0, user, failed, runs>>
  /\ UNCHANGED fnVars
  /\ UNCHANGED ghostVars

Next ==
  \/ EditSource
  \/ DropTargetFile
  \/ StartRun
  \/ Prepare
  \/ CreditCheck
  \/ TranslateSkip
  \/ TranslateOk
  \/ TranslateFail
  \/ CreateLock
  \/ Merge
  \/ Cleanup

Spec == Init /\ [][Next]_vars

LogIndexes == 1..Len(log)

C9_RunEndsWithOrphansRemoved ==
  pc = "done" =>
    \A l \in Langs :
      targetFile[l] # NoFile => OrphanKeyPaths(targetFile[l], srcFile) = {}

\* C10: if the translation step fails for a target language, the run aborts
\* with the lock file and every target file as they were before the run; the
\* failed language has no history file.
C10_TranslationFailureLeavesFiles ==
  (failed # {} /\ pc # "idle") =>
    /\ pc = "exited"
    /\ lockFile = lock0
    /\ targetFile = target0
    /\ \A l \in failed : histFile[l] = NoFile

\* a run aborted at the second language, after the first language's answer was
\* saved to the history, in a project that already had a lock and target files
C10_Witness ==
  /\ pc = "exited"
  /\ failed # {}
  /\ lock0 # NoFile
  /\ \E l \in Langs : histFile[l] # NoFile
  /\ \E l \in Langs : target0[l] # NoFile

\* the states of a run after main built the per-language payloads
Prepared == pc \in {"credit", "translate", "lock", "merge", "cleanup", "done"}

\* C11: every configured target language has exactly one payload: the full
\* source tree when the language had no target file before the run, and the
\* delta tree (what useExtract returned for the source and the lock) otherwise.
C11_PayloadFullOrDelta ==
  Prepared =>
    /\ DOMAIN payloads = Langs
    /\ \A l \in Langs :
         payloads[l] = IF target0[l] = NoFile
                         THEN sourceData
                         ELSE useExtract(lock0, sourceData)

\* a run with one new language and one language that only gets a non-empty
\* delta, smaller than the source
C11_Witness ==
  /\ pc = "credit"
  /\ \E new, old \in Langs :
       /\ target0[new] = NoFile
       /\ target0[old] # NoFile
       /\ payloads[new] = sourceData
       /\ payloads[old] # sourceData
       /\ KeysOf(payloads[old]) # {}

AllPayloadsEmpty == \A l \in Langs : payloads[l] = EmptyObj

\* C12: when every payload is empty the run ends without a call to the
\* provider, and the lock file, the history and every target file are left as
\* they were; a run goes on to the provider only with a non-empty payload.
C12_NoWorkNoCallNoWrite ==
  /\ (pc = "done" /\ AllPayloadsEmpty) =>
       /\ log = <<>>
       /\ lockFile = lock0
       /\ targetFile = target0
       /\ \A l \in Langs : histFile[l] = NoFile
  /\ pc \in {"credit", "translate", "lock", "merge", "cleanup"} =>
       ~AllPayloadsEmpty

\* a run over an unchanged source of a project that has a lock and both target
\* files ends at the hasWorkToDo test
C12_Witness ==
  /\ pc = "done"
  /\ AllPayloadsEmpty
  /\ lock0 # NoFile
  /\ KeysOf(sourceData) # {}
  /\ \A l \in Langs : target0[l] # NoFile

(***************************************************************************)
(* Two runs of main side by side: the same source, lock and file of one    *)
(* target language, two different files of the other target language      *)
(***************************************************************************)
\* main with a provider that answers every call: the target files it leaves
mainTargetFiles(files, lock, source) ==
  LET data == parseJsonFile(source)
      uniqueKeys == useExtract(lock, data)
      perLanguage == createPerLanguagePayloads(files, data, uniqueKeys)
      history(l) == IF KeysOf(perLanguage[l]) = {}
                      THEN NoFile
                      ELSE Translated(l, perLanguage[l])
      merged(l) == mergeFiles(parseJsonFile(files[l]), parseJsonFile(history(l)))
  IN  IF uniqueKeys = Throw \/ ~hasWorkToDo(perLanguage)
        THEN files
        ELSE [l \in Langs |-> cleanedUp(merged(l), data)]

\* the runs of Spec that end normally leave what mainTargetFiles computes
MainAgreesWithRun ==
  pc = "done" => targetFile = mainTargetFiles(target0, lock0, srcFile)

OtherLang(lang) == CHOOSE l \in Langs : l # lang

IndepTrees == ObjectsOver({Ka, Kb}, {Str(<<"x">>)}) \cup {Obj(Ka :> Str(<<"y">>))}
IndepFiles(lang) == {NoFile} \cup {Translated(lang, tree) : tree \in IndepTrees}

InitIndep ==
  /\ \E lang \in Langs :
       /\ fnA \in [lang : {lang}, file : IndepFiles(lang),
                    source : IndepTrees, lock : {NoFile} \cup IndepTrees]
       /\ fnB \in IndepFiles(OtherLang(lang)) \X IndepFiles(OtherLang(lang))
  /\ fnPaths = <<>>
  /\ fnOut = Undef
  /\ fnStage = "input"
  /\ RunAtRest

\* main, run once with each of the two files of the other language
IndepStep ==
  /\ fnStage = "input"
  /\ LET files(other) == (fnA.lang :> fnA.file) @@ (OtherLang(fnA.lang) :> other)
     IN  fnOut' = <<mainTargetFiles(files(fnB[1]), fnA.lock, fnA.source),
                    mainTargetFiles(files(fnB[2]), fnA.lock, fnA.source)>>
  /\ fnStage' = "done"
  /\ UNCHANGED <<fnA, fnB, fnPaths>>
  /\ UNCHANGED runVars

NextIndep == IndepStep

SpecIndep == InitIndep /\ [][NextIndep]_vars

\* C13: the file of a target language at the end of a run is the same whatever
\* the other target language's file is (missing, so that it is a new language
\* with work to do, or present), given the language's own file, the source
\* tree, the lock and the provider's answers.
C13_TargetIndependentOfOthers ==
  fnStage = "done" => fnOut[1][fnA.lang] = fnOut[2][fnA.lang]

\* C14: for all trees A, extractUniqueKeys(A, A) is the empty tree.
C14_DiffOfSameIsEmpty ==
  (fnStage = "done" /\ fnA = fnB) => fnOut = EmptyObj

\* a tree with a leaf, a null and a subtree compared with itself
C14_Witness ==
  /\ fnStage = "done"
  /\ fnA = fnB
  /\ fnOut = EmptyObj
  /\ \E k \in KeysOf(fnA) : fnA.m[k].t = "obj" /\ KeysOf(fnA.m[k]) # {}
  /\ \E k \in KeysOf(fnA) : fnA.m[k].t # "obj"

(***************************************************************************)
(* useExtract on every source tree, with no lock file or with any lock     *)
(***************************************************************************)
InitExtract ==
  /\ fnA \in DiffTrees
  /\ fnB \in {NoFile} \cup DiffTrees
  /\ fnPaths = <<>>
  /\ fnOut = Undef
  /\ fnStage = "input"
  /\ RunAtRest

\* uniqueKeys = await useExtract(config.source, fnA), the lock file being fnB
ExtractStep ==
  /\ fnStage = "input"
  /\ fnOut' = useExtract(fnB, fnA)
  /\ fnStage' = "done"
  /\ UNCHANGED <<fnA, fnB, fnPaths>>
  /\ UNCHANGED runVars

NextExtract == ExtractStep

SpecExtract == InitExtract /\ [][NextExtract]_vars

\* C15: for all trees A, extractUniqueKeys(A, {}) equals A, and useExtract
\* returns the whole source tree when there is no lock file.
C15_BootstrapIsWholeSource ==
  (fnStage = "done" /\ fnB \in {NoFile, EmptyObj}) => fnOut = fnA

\* a first run over a source with a leaf and a non-empty subtree
C15_Witness ==
  /\ fnStage = "done"
  /\ fnB = NoFile
  /\ fnOut = fnA
  /\ \E k \in KeysOf(fnA) : fnA.m[k].t = "obj" /\ KeysOf(fnA.m[k]) # {}
  /\ \E k \in KeysOf(fnA) : fnA.m[k].t # "obj"

\* the same source compared with an empty lock
C15_WitnessEmptyLock ==
  /\ fnStage = "done"
  /\ fnB = EmptyObj
  /\ fnOut = fnA
  /\ \E k \in KeysOf(fnA) : fnA.m[k].t = "obj" /\ KeysOf(fnA.m[k]) # {}

(***************************************************************************)
(* mergeFiles on a heap of objects: what the call allocates and writes     *)
(***************************************************************************)
\* a reference to the object at an address of the heap; a heap is a sequence
\* of objects, an object a function from keys to leaves and references
Ref(address) == [t |-> "ref", s |-> <<>>, m |-> address]

\* JSON.parse: the tree v built in fresh objects, children first
RECURSIVE Store(_, _)
RECURSIVE StoreKeys(_, _, _, _)
StoreKeys(heap, v, keys, object) ==
  IF keys = <<>> THEN [h |-> heap, o |-> object]
  ELSE LET child == Store(heap, v.m[Head(keys)])
       IN  StoreKeys(child.h, v, Tail(keys), (Head(keys) :> child.c) @@ object)

Store(heap, v) ==
  IF v.t # "obj" THEN [h |-> heap, c |-> v]
  ELSE LET children == StoreKeys(heap, v, OrderedKeys(v), <<>>)
       IN  [h |-> Append(children.h, children.o), c |-> Ref(Len(children.h) + 1)]

\* the tree that a leaf or reference denotes in a heap
RECURSIVE Load(_, _)
Load(heap, c) ==
  IF c.t = "ref"
    THEN Obj([k \in DOMAIN heap[c.m] |-> Load(heap, heap[c.m][k])])
    ELSE c

\* { ...target }: the properties of target, subtrees by reference
SpreadCell(heap, c) == IF c.t = "ref" THEN heap[c.m] ELSE Spread(c)

RECURSIVE mergeFilesHeap(_, _, _)
RECURSIVE MergeKeys(_, _, _, _)
\* the loop over Object.keys(source), writing into the object at merged
MergeKeys(heap, merged, source, keys) ==
  IF keys = <<>> THEN heap
  ELSE LET key == Head(keys)
           sourceVal == heap[source][key]
           targetVal == IF key \in DOMAIN heap[merged] THEN heap[merged][key] ELSE Undef
           nested == mergeFilesHeap(heap, targetVal, sourceVal)
       IN  IF sourceVal.t = "ref"
             THEN MergeKeys([nested.h EXCEPT ![merged] = (key :> nested.c) @@ @],
                            merged, source, Tail(keys))
             ELSE MergeKeys([heap EXCEPT ![merged] = (key :> sourceVal) @@ @],
                            merged, source, Tail(keys))

\* mergeFiles(target, source): the heap after the call and the returned value
mergeFilesHeapInPlace(heap, target, source) ==
  LET merged == IF target.t = "ref" THEN target.m ELSE Len(heap) + 1
      start == IF target.t = "ref" THEN heap ELSE Append(heap, Spread(target))
  IN  [h |-> MergeKeys(start, merged, source.m, OrderedKeys(Obj(heap[source.m]))),
       c |-> Ref(merged)]

mergeFilesHeap(heap, target, source) ==
  LET merged == Len(heap) + 1
      start == Append(heap, SpreadCell(heap, target))
  IN  [h |-> MergeKeys(start, merged, source.m, OrderedKeys(Obj(heap[source.m]))),
       c |-> Ref(merged)]

InitHeap ==
  /\ fnA \in MergeTargets
  /\ fnB \in MergeSources
  /\ fnPaths = <<>>
  /\ fnOut = Undef
  /\ fnStage = "input"
  /\ RunAtRest

\* useMerging: both files parsed, then mergeFiles(oldState, newState)
HeapStep ==
  /\ fnStage = "input"
  /\ LET oldState == Store(<<>>, fnA)
         newState == Store(oldState.h, fnB)
         mergedJson == mergeFilesHeap(newState.h, oldState.c, newState.c)
     IN  fnOut' = [before |-> newState.h, target |-> oldState.c,
                   source |-> newState.c, after |-> mergedJson.h,
                   result |-> mergedJson.c]
  /\ fnStage' = "done"
  /\ UNCHANGED <<fnA, fnB, fnPaths>>
  /\ UNCHANGED runVars

NextHeap == HeapStep

SpecHeap == InitHeap /\ [][NextHeap]_vars

\* the tree returned on the heap is the tree that mergeFiles computes
HeapAgreesWithValues ==
  fnStage = "done" => Load(fnOut.after, fnOut.result) = mergeFiles(fnA, fnB)

\* C16: mergeFiles is pure: after the call every object that existed before is
\* as it was, so the two inputs and all their subtrees still are the trees
\* they were, and the returned root is an object that did not exist before.
C16_MergeLeavesInputsIntact ==
  fnStage = "done" =>
    /\ \A a \in 1..Len(fnOut.before) : fnOut.after[a] = fnOut.before[a]
    /\ Load(fnOut.after, fnOut.target) = fnA
    /\ Load(fnOut.after, fnOut.source) = fnB
    /\ fnOut.result.m > Len(fnOut.before)

\* a merge that overrides a leaf of the existing tree and writes into one of
\* its subtrees
C16_Witness ==
  /\ fnStage = "done"
  /\ \E k \in KeysOf(fnA) \cap KeysOf(fnB) :
       fnA.m[k].t = "str" /\ fnB.m[k].t = "str" /\ fnA.m[k] # fnB.m[k]
  /\ \E k \in KeysOf(fnA) \cap KeysOf(fnB) :
       /\ fnA.m[k].t = "obj" /\ fnB.m[k].t = "obj"
       /\ KeysOf(fnB.m[k]) # {}
  /\ Load(fnOut.after, fnOut.result) # fnA

\* C17: for all trees T and S, mergeFiles(T, {}) equals T and mergeFiles({}, S)
\* equals S.
C17_MergeIdentities ==
  fnStage = "done" =>
    /\ fnB = EmptyObj => fnOut = fnA
    /\ fnA = EmptyObj => fnOut = fnB

\* an existing tree with a leaf and a non-empty subtree merged with nothing
C17_Witness ==
  /\ fnStage = "done"
  /\ fnB = EmptyObj
  /\ fnOut = fnA
  /\ \E k \in KeysOf(fnA) : fnA.m[k].t = "obj" /\ KeysOf(fnA.m[k]) # {}
  /\ \E k \in KeysOf(fnA) : fnA.m[k].t = "str"

\* translations with a leaf and a non-empty subtree merged into no tree
C17_WitnessEmptyTarget ==
  /\ fnStage = "done"
  /\ fnA = EmptyObj
  /\ fnOut = fnB
  /\ \E k \in KeysOf(fnB) : fnB.m[k].t = "obj" /\ KeysOf(fnB.m[k]) # {}
  /\ \E k \in KeysOf(fnB) : fnB.m[k].t = "str"

\* C18: for all trees T and S, mergeFiles(mergeFiles(T, S), S) equals
\* mergeFiles(T, S).
C18_MergeIdempotent ==
  fnStage = "again" => fnOut.second = fnOut.first

\* a second merge after a first one that changed the existing tree, in a leaf
\* and inside a subtree
C18_Witness ==
  /\ fnStage = "again"
  /\ fnOut.second = fnOut.first
  /\ fnOut.first # fnA
  /\ \E k \in KeysOf(fnA) \cap KeysOf(fnB) :
       /\ fnA.m[k].t = "obj" /\ fnB.m[k].t = "obj"
       /\ KeysOf(fnB.m[k]) # {} /\ KeysOf(fnA.m[k]) # {}
  /\ \E k \in KeysOf(fnA) \cap KeysOf(fnB) :
       fnA.m[k].t = "str" /\ fnB.m[k].t = "str"

(***************************************************************************)
(* validateJsonFileObject, src/src/utils.ts:48-66                          *)
(***************************************************************************)
\* an array with the given elements
Arr(elements) == [t |-> "arr", s |-> <<>>, m |-> elements]

\* process.exit(1)
Exit1 == [t |-> "exit1", s |-> <<>>, m |-> <<>>]

RECURSIVE checkNoArrays(_)
\* a check of the values of o only, without the recursive call
checkNoArraysTopLevelOnly(o) ==
  IF \E key \in KeysOf(o) : o.m[key].t = "arr" THEN Exit1 ELSE Undef

checkNoArrays(o) ==
  IF \E key \in KeysOf(o) :
       \/ o.m[key].t = "arr"
       \/ o.m[key].t = "obj" /\ checkNoArrays(o.m[key]) = Exit1
    THEN Exit1
    ELSE Undef

\* returns undefined, or ends the process with code 1
validateJsonFileObject(obj) ==
  IF obj.t # "obj" THEN Exit1 ELSE checkNoArrays(obj)

\* what JSON.parse may return for the source file
ValidateLeaves == {Str(<<"x">>), Null, Arr(<<>>), Arr(<<Str(<<"x">>)>>)}
ValidateInner == ValidateLeaves \cup ObjectsOver({Ka, Kb}, ValidateLeaves)
ValidateMiddle == ValidateLeaves \cup ObjectsOver({Ka}, ValidateInner)
ValidateRoots == ValidateLeaves \cup ObjectsOver({Ka, Kb}, ValidateMiddle)

InitValidate ==
  /\ fnA \in ValidateRoots
  /\ fnB = EmptyObj
  /\ fnPaths = <<>>
  /\ fnOut = Undef
  /\ fnStage = "input"
  /\ RunAtRest

\* await validateJsonFileObject(sourceData)
ValidateStep ==
  /\ fnStage = "input"
  /\ fnOut' = validateJsonFileObject(fnA)
  /\ fnStage' = "done"
  /\ UNCHANGED <<fnA, fnB, fnPaths>>
  /\ UNCHANGED runVars

NextValidate == ValidateStep

SpecValidate == InitValidate /\ [][NextValidate]_vars

\* the key paths of the trees of ValidateRoots
ValidatePaths ==
  UNION {[1..n -> {Ka, Kb}] : n \in 1..3}

\* C19: validateJsonFileObject exits with code 1 if and only if the root is not
\* a non-null, non-array object or the value at some key path, at any depth,
\* is an array; every other tree is accepted.
C19_ExitIffBadRootOrArray ==
  fnStage = "done" =>
    (fnOut = Exit1 <=>
       \/ fnA.t # "obj"
       \/ \E p \in ValidatePaths : At(fnA, p).t = "arr")

\* a tree whose only array is three levels down
C19_Witness ==
  /\ fnStage = "done"
  /\ fnOut = Exit1
  /\ fnA.t = "obj"
  /\ \A p \in ValidatePaths : At(fnA, p).t = "arr" => Len(p) = 3
  /\ \E p \in ValidatePaths : At(fnA, p).t = "arr"

\* a tree three levels deep without an array, accepted
C19_WitnessAccepted ==
  /\ fnStage = "done"
  /\ fnOut = Undef
  /\ \E p \in ValidatePaths : Len(p) = 3 /\ At(fnA, p).t = "str"

\* the provider answered for every target language that had work, and some had
ProviderSucceededForAll ==
  /\ ~AllPayloadsEmpty
  /\ failed = {}
  /\ \A l \in Langs :
       payloads[l] # EmptyObj => \E i \in LogIndexes : log[i] = <<"history", l>>

LockWritten == \E i \in LogIndexes : log[i][1] = "lock"

\* C20: after every run in which the provider succeeded for all languages that
\* had work, the lock file is exactly the current source tree, whatever the
\* previous lock was; the lock file is written in such runs only, and in every
\* other run it keeps its pre-run content.
C20_LockIsSourceAfterSuccess ==
  /\ (pc = "done" /\ ProviderSucceededForAll) => lockFile = srcFile
  /\ LockWritten => (ProviderSucceededForAll /\ lockFile = sourceData)
  /\ ~LockWritten => lockFile = lock0

\* a completed run over a source that lost a key the previous lock had and
\* gained or changed another one
C20_Witness ==
  /\ pc = "done"
  /\ ProviderSucceededForAll
  /\ lock0 # NoFile
  /\ KeysOf(lock0) \ KeysOf(srcFile) # {}
  /\ KeysOf(srcFile) # {}
  /\ lockFile = srcFile

\* C21: for every language translated in a run the history file of the run is
\* the provider's answer unchanged, and the tree merged into the language's
\* target file is that stored answer; a language without an answer in the run
\* is merged with the empty tree.
C21_HistoryIsAnswerAndIsMerged ==
  \A l \in Langs :
    /\ histFile[l] = answer[l]
    /\ mergedIn[l] # NoFile =>
         mergedIn[l] = IF answer[l] = NoFile THEN EmptyObj ELSE answer[l]

\* a completed run in which one language was translated and the other, with
\* an empty payload, was merged with the empty tree
C21_Witness ==
  /\ pc = "done"
  /\ \E l, k \in Langs :
       /\ answer[l] # NoFile /\ mergedIn[l] = answer[l] /\ answer[l] # sent[l]
       /\ answer[k] = NoFile /\ mergedIn[k] = EmptyObj

\* the positions of the log where the provider was called for language l
CallsFor(l) == {i \in LogIndexes : log[i] = <<"call", l>>}

\* the place of a language in config.target
PlaceOf(l) == CHOOSE i \in 1..Len(TargetOrder) : TargetOrder[i] = l

\* the translation step of the current run is over
TranslationOver == pc \in {"lock", "merge", "cleanup"} \/ (pc = "done" /\ LockWritten)

\* C24: in a run that reaches the translation step the provider is called, in
\* configuration order, exactly once for each target language with a non-empty
\* payload, with that language's own payload; for a language with an empty
\* payload there is no call and no history file; no target file is merged
\* before the call for the last language.
C24_OneCallPerLanguageInOrder ==
  /\ \A l \in Langs :
       /\ Cardinality(CallsFor(l)) <= 1
       /\ CallsFor(l) # {} <=> sent[l] # NoFile
       /\ sent[l] # NoFile => sent[l] = payloads[l]
       /\ payloads[l] = EmptyObj =>
            /\ CallsFor(l) = {}
            /\ histFile[l] = NoFile
            /\ \A i \in LogIndexes : log[i] # <<"history", l>>
       /\ (TranslationOver /\ payloads[l] # EmptyObj) => Cardinality(CallsFor(l)) = 1
  /\ \A l, k \in Langs :
       \A i \in CallsFor(l), j \in CallsFor(k) : i < j => PlaceOf(l) < PlaceOf(k)
  /\ \A i \in LogIndexes :
       log[i][1] = "merge" =>
         \A l \in Langs : payloads[l] # EmptyObj => \E j \in CallsFor(l) : j < i

\* a completed run with two different payloads, each sent to its own language
C24_Witness ==
  /\ pc = "done"
  /\ \A l \in Langs : Cardinality(CallsFor(l)) = 1 /\ sent[l] = payloads[l]
  /\ \E l, k \in Langs : payloads[l] # payloads[k]

\* a completed run in which one language was skipped
C24_WitnessSkipped ==
  /\ pc = "done"
  /\ \E l, k \in Langs :
       /\ payloads[l] = EmptyObj /\ CallsFor(l) = {} /\ histFile[l] = NoFile
       /\ Cardinality(CallsFor(k)) = 1

\* C25: after a run that completed its translate, lock, merge and cleanup
\* steps, an immediately following run over the same source makes no provider
\* call and changes neither the lock file nor any target file.
C25_SecondRunChangesNothing ==
  (prevRun = "completed" /\ pc # "idle") =>
    /\ pc \in {"loaded", "done", "exited"}
    /\ log = <<>>
    /\ \A l \in Langs : sent[l] = NoFile /\ histFile[l] = NoFile
    /\ lockFile = lock0
    /\ targetFile = target0

\* the second of two runs over the same non-empty source, ended for lack of
\* work
C25_Witness ==
  /\ prevRun = "completed"
  /\ pc = "done"
  /\ KeysOf(srcFile) # {}
  /\ lockFile = srcFile
  /\ \A l \in Langs : targetFile[l] # NoFile

\* C26: when the credit check of useUser fails to fetch the user (returns
\* null), reports an inactive account or a negative balance after the job, or
\* the user declines the prompt, the run makes no provider call and writes no
\* lock, history or target file.
C26_NoCallWithoutCreditCheck ==
  (user \in {"null", "inactive", "insufficient", "declined"} /\ pc # "idle") =>
    /\ log = <<>>
    /\ \A l \in Langs : sent[l] = NoFile /\ histFile[l] = NoFile
    /\ lockFile = lock0
    /\ targetFile = target0

(***************************************************************************)
(* useConfigLoader, src/src/config.ts:56-131, with the useUser it calls    *)
(***************************************************************************)
\* what useUser does with the answer of the user endpoint: it returns the
\* user or null, or ends the process.  env is the configuration as loaded
\* and the user's answer to the prompt, server the endpoint's behaviour
useUser(env, server) ==
  IF ~server.fetchOk THEN [out |-> "null", code |-> 0]
  ELSE IF ~server.isActive THEN [out |-> "exit", code |-> 1]
  ELSE IF server.after < 0 THEN [out |-> "exit", code |-> 1]
  \* config.options.prompt raises a TypeError when options is missing
  ELSE IF env.options = "missing" THEN [out |-> "null", code |-> 0]
  ELSE IF env.options = "prompt" /\ ~env.agreed THEN [out |-> "exit", code |-> 0]
  ELSE [out |-> "user", code |-> 0]

validateConfig(env) ==
  ~(~env.source \/ env.target = "missing" \/ ~env.langDir \/ ~env.apiKey)

\* the loader without its test of credit_balance
useConfigLoaderNoBalanceTest(env, server) ==
  LET checked == useUser(env, server)
      ended(code, wrote) == [out |-> "exit", code |-> code, wroteDefault |-> wrote,
                             warned |-> FALSE]
  IN  IF ~env.fileExists THEN ended(0, TRUE)
      ELSE IF ~env.apiKey THEN ended(1, FALSE)
      ELSE IF ~validateConfig(env) THEN ended(1, FALSE)
      ELSE IF checked.out = "exit"
        THEN [ended(checked.code, FALSE) EXCEPT !.warned = (env.options = "missing")]
      ELSE IF checked.out = "null" \/ ~server.user_id \/ ~server.isActive
        THEN [ended(1, FALSE) EXCEPT !.warned = (env.options = "missing")]
      ELSE [out |-> "return", code |-> 0, wroteDefault |-> FALSE,
            warned |-> (env.options = "missing")]

useConfigLoader(env, server) ==
  LET checked == useUser(env, server)
      ended(code, wrote) == [out |-> "exit", code |-> code, wroteDefault |-> wrote,
                             warned |-> FALSE]
  IN  IF ~env.fileExists THEN ended(0, TRUE)
      ELSE IF ~env.apiKey THEN ended(1, FALSE)
      ELSE IF ~validateConfig(env) THEN ended(1, FALSE)
      ELSE IF checked.out = "exit"
        THEN [ended(checked.code, FALSE) EXCEPT !.warned = (env.options = "missing")]
      ELSE IF checked.out = "null" \/ ~server.user_id \/ ~server.isActive
              \/ server.credit_balance <= 0
        THEN [ended(1, FALSE) EXCEPT !.warned = (env.options = "missing")]
      ELSE [out |-> "return", code |-> 0, wroteDefault |-> FALSE,
            warned |-> (env.options = "missing")]

\* the configuration file, the environment and the user at the terminal
ConfigEnvs ==
  [fileExists : BOOLEAN, apiKey : BOOLEAN, source : BOOLEAN,
   target : {"missing", "empty", "list"}, langDir : BOOLEAN,
   options : {"missing", "prompt", "noprompt"}, agreed : BOOLEAN]

\* the user endpoint: it fails, or answers with these fields
UserServers ==
  [fetchOk : BOOLEAN, user_id : BOOLEAN, isActive : BOOLEAN,
   credit_balance : {-1, 0, 1}, after : {-1, 0, 1}]

InitConfig ==
  /\ fnA \in ConfigEnvs
  /\ fnB \in UserServers
  /\ fnPaths = <<>>
  /\ fnOut = Undef
  /\ fnStage = "input"
  /\ RunAtRest

\* const config = await useConfigLoader()
ConfigStep ==
  /\ fnStage = "input"
  /\ fnOut' = useConfigLoader(fnA, fnB)
  /\ fnStage' = "done"
  /\ UNCHANGED <<fnA, fnB, fnPaths>>
  /\ UNCHANGED runVars

NextConfig == ConfigStep

SpecConfig == InitConfig /\ [][NextConfig]_vars

\* the conditions the loader is said to require
ConfigAllHold ==
  /\ fnA.fileExists /\ fnA.apiKey
  /\ fnA.source /\ fnA.target # "missing" /\ fnA.langDir
  /\ fnB.fetchOk /\ fnB.user_id /\ fnB.isActive /\ fnB.credit_balance > 0

\* C22 (as stated): useConfigLoader returns a configuration only when the
\* config file exists, the API key is set, source, target and langDir are
\* present and the user check gave a user with a user_id, isActive true and a
\* positive credit_balance; otherwise it exits, with code 0 after writing the
\* default configuration when the file is missing and code 1 in every other
\* case.
C22_LoaderReturnsOrExits ==
  fnStage = "done" =>
    /\ fnOut.out = "return" => ConfigAllHold
    /\ ~ConfigAllHold =>
         /\ fnOut.out = "exit"
         /\ fnOut.code = IF fnA.fileExists THEN 1 ELSE 0
         /\ fnOut.wroteDefault = ~fnA.fileExists

\* the user check reached its confirmation prompt and the user said no
PromptDeclined ==
  /\ fnA.fileExists /\ fnA.apiKey
  /\ fnA.source /\ fnA.target # "missing" /\ fnA.langDir
  /\ fnB.fetchOk /\ fnB.isActive /\ fnB.after >= 0
  /\ fnA.options = "prompt" /\ ~fnA.agreed

\* C22 (amended): the loader returns only under the stated conditions; when it
\* does not return it exits with code 0 after writing the default
\* configuration when the file is missing, with code 0 when the user declines
\* the confirmation prompt of the user check, and with code 1 in every other
\* case.
C22_LoaderReturnsOrExitsOrDeclined ==
  fnStage = "done" =>
    /\ fnOut.out = "return" => ConfigAllHold
    /\ ~ConfigAllHold => fnOut.out = "exit"
    /\ fnOut.out = "exit" =>
         /\ fnOut.code = IF ~fnA.fileExists \/ PromptDeclined THEN 0 ELSE 1
         /\ fnOut.wroteDefault = ~fnA.fileExists

\* an account without credits, the prompt declined: exit with code 0
C22_Witness ==
  /\ fnStage = "done"
  /\ fnA.fileExists /\ PromptDeclined
  /\ fnB.credit_balance = 0
  /\ fnOut.out = "exit" /\ fnOut.code = 0

\* a loader that returns the configuration
C22_WitnessReturn ==
  fnStage = "done" /\ fnOut.out = "return" /\ ConfigAllHold

\* C23: a configuration file without an options object is not fatal: with the
\* API key set, a valid active account and a positive balance, useConfigLoader
\* warns that options is missing and returns the configuration.
C23_MissingOptionsNotFatal ==
  (/\ fnStage = "done"
   /\ ConfigAllHold
   /\ fnB.after >= 0
   /\ fnA.options = "missing") =>
    fnOut.out = "return" /\ fnOut.warned

\* the sequences of keys of T that also exist in S at the same position
SharedKeyPaths(T, S) ==
  UNION {{p \o <<k>> : k \in KeysOf(At(T, p)) \cap KeysOf(At(S, p))} :
           p \in BothPositions(T, S)}

\* C27: removeKeysByPath(T, findKeysToRemove(T, S)) deletes no key of T that
\* exists in S at the same position, whatever the keys are (keys with a '.'
\* and the empty key included).
C27_PrunerKeepsSharedKeys ==
  fnStage = "pruned" =>
    \A q \in SharedKeyPaths(fnA, fnB) : At(fnOut, q) # Undef

(***************************************************************************)
(* The engine with a translator that returns its payload: extract, merge   *)
(* and clean up, from a previous tree to the current one                   *)
(***************************************************************************)
InitEngine ==
  /\ fnA \in DiffTrees
  /\ fnB \in DiffTrees
  /\ fnPaths = <<>>
  /\ fnOut = Undef
  /\ fnStage = "input"
  /\ RunAtRest

\* D = extractUniqueKeys(cur, prev), cur being fnA and prev fnB
EngineExtract ==
  /\ fnStage = "input"
  /\ fnOut' = extractUniqueKeys(fnA, fnB)
  /\ fnStage' = IF fnOut' = Throw THEN "thrown" ELSE "extracted"
  /\ UNCHANGED <<fnA, fnB, fnPaths>>
  /\ UNCHANGED runVars

\* M = mergeFiles(prev, D)
EngineMerge ==
  /\ fnStage = "extracted"
  /\ fnOut' = mergeFiles(fnB, fnOut)
  /\ fnStage' = "merged"
  /\ UNCHANGED <<fnA, fnB, fnPaths>>
  /\ UNCHANGED runVars

\* removeKeysByPath(M, findKeysToRemove(M, cur))
EngineCleanup ==
  /\ fnStage = "merged"
  /\ fnPaths' = findKeysToRemove(fnOut, fnA, <<>>)
  /\ fnOut' = removeKeysByPath(fnOut, fnPaths')
  /\ fnStage' = "cleaned"
  /\ UNCHANGED <<fnA, fnB>>
  /\ UNCHANGED runVars

NextEngine == EngineExtract \/ EngineMerge \/ EngineCleanup

SpecEngine == InitEngine /\ [][NextEngine]_vars

\* C28: for all trees prev and cur with non-empty keys without '.', extract,
\* merge and clean up with an identity translator rebuild cur, also when a key
\* changed between leaf and subtree.
C28_EngineRebuildsCurrent ==
  /\ fnStage # "thrown"
  /\ fnStage = "cleaned" => fnOut = fnA

(***************************************************************************)
(* The workflow over source files that also have null leaves and empty     *)
(* subtrees, which validateJsonFileObject accepts                          *)
(***************************************************************************)
\* key a absent, null, a string, an empty or a non-empty subtree; key b
\* absent or a string
NullableSourceTrees ==
  {Obj(a @@ b) :
     a \in {<<>>} \cup {Ka :> v : v \in {Null, Str(<<"x">>), EmptyObj,
                                         Obj(Kc :> Str(<<"x">>))}},
     b \in {<<>>} \cup {Kb :> v : v \in {Str(<<"x">>)}}}

InitNullable ==
  /\ fnA = EmptyObj
  /\ fnB = EmptyObj
  /\ fnPaths = <<>>
  /\ fnOut = Undef
  /\ fnStage = "unused"
  /\ srcFile \in NullableSourceTrees
  /\ lockFile = NoFile
  /\ targetFile = [l \in Langs |-> NoFile]
  /\ histFile = [l \in Langs |-> NoFile]
  /\ pc = "idle"
  /\ idx = 0
  /\ sourceData = EmptyObj
  /\ payloads = [l \in Langs |-> EmptyObj]
  /\ lock0 = NoFile
  /\ target0 = [l \in Langs |-> NoFile]
  /\ user = "none"
  /\ failed = {}
  /\ log = <<>>
  /\ runs = 0
  /\ sent = [l \in Langs |-> NoFile]
  /\ answer = [l \in Langs |-> NoFile]
  /\ mergedIn = [l \in Langs |-> NoFile]
  /\ prevRun = "none"

\* the user edits the source file between two runs
EditSourceNullable ==
  /\ Ended
  /\ runs < MaxRuns
  /\ \E tree \in NullableSourceTrees \ {srcFile} : srcFile' = tree
  /\ pc' = "idle"
  /\ UNCHANGED <<lockFile, targetFile, histFile, idx, sourceData, payloads,
                 lock0, target0, user, failed, log, runs>>
  /\ UNCHANGED fnVars
  /\ UNCHANGED ghostVars

NextNullable ==
  \/ EditSourceNullable
  \/ DropTargetFile
  \/ StartRun
  \/ Prepare
  \/ CreditCheck
  \/ TranslateSkip
  \/ TranslateOk
  \/ TranslateFail
  \/ CreateLock
  \/ Merge
  \/ Cleanup

SpecNullable == InitNullable /\ [][NextNullable]_vars

\* the same key structure: the same keys, and at each key a leaf on both
\* sides or subtrees of the same key structure
RECURSIVE SameShape(_, _)
SameShape(T, S) ==
  /\ T.t = "obj" <=> S.t = "obj"
  /\ T.t = "obj" =>
       /\ KeysOf(T) = KeysOf(S)
       /\ \A k \in KeysOf(T) : SameShape(T.m[k], S.m[k])

\* C29: from a project without lock and target files, at the end of every run
\* (completed, skipped for lack of work, or aborted) every existing target
\* file has the key structure of the lock file.
C29_TargetsShapedAsLock ==
  pc \in {"done", "exited"} =>
    \A l \in Langs :
      targetFile[l] # NoFile =>
        lockFile # NoFile /\ SameShape(targetFile[l], lockFile)


(***************************************************************************)
(* The character count submitted to the credit check,                      *)
(* src/src/utils.ts:230-258 and main                                       *)
(***************************************************************************)
\* number and boolean leaves: typeof is neither 'string' nor 'object'
NumLeaf == [t |-> "num", s |-> <<>>, m |-> <<>>]
BoolLeaf == [t |-> "bool", s |-> <<>>, m |-> <<>>]

\* let sum = 0; for (...) sum += f[...]
RECURSIVE SumOf(_)
SumOf(f) ==
  IF DOMAIN f = {} THEN 0
  ELSE LET k == CHOOSE j \in DOMAIN f : TRUE
       IN  f[k] + SumOf([j \in DOMAIN f \ {k} |-> f[j]])

\* useCount without the recursive branch
useCountTopLevelOnly(obj) ==
  SumOf([key \in KeysOf(obj) |->
           IF obj.m[key].t = "str" THEN Len(obj.m[key].s) ELSE 0])

\* useCount: a string adds its length, a value whose typeof is 'object' (null
\* included, over which for-in finds no key) adds its own count, any other
\* value adds nothing
RECURSIVE useCount(_)
useCount(obj) ==
  SumOf([key \in KeysOf(obj) |->
           IF obj.m[key].t = "str" THEN Len(obj.m[key].s)
           ELSE IF TypeofObject(obj.m[key]) THEN useCount(obj.m[key])
           ELSE 0])

\* useCountPerLanguage: the counts of the entries of the Map, added up
useCountPerLanguage(perLanguagePayloads) ==
  SumOf([lang \in DOMAIN perLanguagePayloads |->
           useCount(perLanguagePayloads[lang])])

\* the strings "x", "xx", ... of at most MaxStrLen characters
CountStrings == {[i \in 1..n |-> "x"] : n \in 1..MaxStrLen}
CountLeaves == {Null, NumLeaf, BoolLeaf} \cup {Str(s) : s \in CountStrings}
\* source files of depth at most 3
CountSources ==
  ObjectsOver({Ka, Kb},
    CountLeaves \cup
      ObjectsOver({Ka}, CountLeaves \cup ObjectsOver({Ka}, CountLeaves)))
\* lock files: none, or a flat tree
CountLocks == {NoFile} \cup ObjectsOver({Ka, Kb}, CountLeaves)

\* fnA is the source file, fnB the lock file
InitCount ==
  /\ fnA \in CountSources
  /\ fnB \in CountLocks
  /\ fnPaths = <<>>
  /\ fnOut = Undef
  /\ fnStage = "input"
  /\ RunAtRest

\* main from useExtract to useUser(config, totalCharacters); the target files
\* that exist are an input
CountStep ==
  /\ fnStage = "input"
  /\ \E missing \in SUBSET Langs :
       LET files == [l \in Langs |-> IF l \in missing THEN NoFile ELSE EmptyObj]
           uniqueKeys == useExtract(fnB, fnA)
           perLanguagePayloads == createPerLanguagePayloads(files, fnA, uniqueKeys)
       IN  IF uniqueKeys = Throw
             THEN /\ fnOut' = Throw
                  /\ fnStage' = "thrown"
           ELSE IF ~hasWorkToDo(perLanguagePayloads)
             THEN /\ fnOut' = Undef
                  /\ fnStage' = "nowork"
           ELSE /\ fnOut' = [payloads |-> perLanguagePayloads,
                             characters |-> useCountPerLanguage(perLanguagePayloads)]
                /\ fnStage' = "submitted"
  /\ UNCHANGED <<fnA, fnB, fnPaths>>
  /\ UNCHANGED runVars

NextCount == CountStep

SpecCount == InitCount /\ [][NextCount]_vars

\* the length of the string leaf at a key path, 0 when the path does not
\* lead to a string
StringLengthAt(T, keyPath) ==
  IF At(T, keyPath).t = "str" THEN Len(At(T, keyPath).s) ELSE 0

\* the string leaves of a tree of CountSources, position by position
StringLengths(T) ==
  StringLengthAt(T, <<Ka>>) + StringLengthAt(T, <<Kb>>)
    + StringLengthAt(T, <<Ka, Ka>>) + StringLengthAt(T, <<Kb, Ka>>)
    + StringLengthAt(T, <<Ka, Ka, Ka>>) + StringLengthAt(T, <<Kb, Ka, Ka>>)

\* C30: the character count passed to the credit check is the sum over the
\* target languages of the lengths of the string leaves, at every depth, of
\* that language's payload; numbers, booleans and null add nothing.
C30_TotalIsSumOfStringLengths ==
  fnStage = "submitted" =>
    fnOut.characters =
      StringLengths(fnOut.payloads["fr"]) + StringLengths(fnOut.payloads["de"])

\* a new language gets the whole source with strings at depths 1 and 3 beside
\* a number, a null and a boolean, the other language a smaller delta
C30_Witness ==
  /\ fnStage = "submitted"
  /\ fnA = Obj(Ka :> Obj(Ka :> Obj(Ka :> Str(<<"x", "x">>))) @@ Kb :> Str(<<"x">>))
  /\ fnB = Obj(Ka :> NumLeaf @@ Kb :> Str(<<"x">>))
  /\ fnOut.payloads["fr"] = fnA
  /\ fnOut.payloads["de"] # fnA
  /\ fnOut.characters = 5
====
